---- MODULE Spec2Model ----
(***************************************************************************)
(* Model of AppStoreAssets/render_screenshots.py: the gradient generator,  *)
(* the font resolver and the render pipeline.  Python floats (IEEE-754     *)
(* binary64, round-to-nearest-even) are modelled exactly: a float is a     *)
(* sign, a 53-bit significand held as base-2^15 limbs and an exponent.     *)
(***************************************************************************)
EXTENDS Integers, Sequences, FiniteSets, TLC

(***************************************************************************)
(* Natural numbers of any size, little-endian limbs in base 2^15.          *)
(***************************************************************************)
LimbBits == 15
Base == 2^15

RECURSIVE Zeros(_)
Zeros(k) == IF k <= 0 THEN <<>> ELSE <<0>> \o Zeros(k - 1)

RECURSIVE Trim(_)
Trim(n) == IF n = <<>> \/ n[Len(n)] # 0 THEN n ELSE Trim(SubSeq(n, 1, Len(n) - 1))

RECURSIVE BigOfNat(_)
BigOfNat(v) == IF v = 0 THEN <<>> ELSE <<v % Base>> \o BigOfNat(v \div Base)

RECURSIVE NatOfBig(_)
NatOfBig(n) == IF n = <<>> THEN 0 ELSE n[1] + Base * NatOfBig(Tail(n))

\* n * c + carry, for 0 <= c < Base
RECURSIVE MulSmall(_, _, _)
MulSmall(n, c, carry) ==
    IF n = <<>> THEN BigOfNat(carry)
    ELSE LET v == n[1] * c + carry
         IN  <<v % Base>> \o MulSmall(Tail(n), c, v \div Base)

\* <<quotient, remainder>> of n by d, 0 < d < Base; i runs from the top limb down
RECURSIVE DivSmallAt(_, _, _, _)
DivSmallAt(n, d, i, rem) ==
    IF i = 0 THEN <<<<>>, rem>>
    ELSE LET v    == rem * Base + n[i]
             rest == DivSmallAt(n, d, i - 1, v % d)
         IN  <<Append(rest[1], v \div d), rest[2]>>

DivSmall(n, d) ==
    LET r == DivSmallAt(n, d, Len(n), 0) IN <<Trim(r[1]), r[2]>>

RECURSIVE AddBig(_, _, _)
AddBig(a, b, carry) ==
    IF a = <<>> /\ b = <<>> THEN BigOfNat(carry)
    ELSE LET x == IF a = <<>> THEN 0 ELSE a[1]
             y == IF b = <<>> THEN 0 ELSE b[1]
             v == x + y + carry
         IN  <<v % Base>> \o
             AddBig(IF a = <<>> THEN a ELSE Tail(a),
                    IF b = <<>> THEN b ELSE Tail(b), v \div Base)

\* a - b - borrow, for a >= b
RECURSIVE SubBigAt(_, _, _)
SubBigAt(a, b, borrow) ==
    IF a = <<>> THEN <<>>
    ELSE LET y == IF b = <<>> THEN 0 ELSE b[1]
             v == a[1] - y - borrow
         IN  <<v % Base>> \o
             SubBigAt(Tail(a), IF b = <<>> THEN b ELSE Tail(b),
                      IF v < 0 THEN 1 ELSE 0)

SubBig(a, b) == Trim(SubBigAt(a, b, 0))

\* -1, 0, 1 as a < b, a = b, a > b (both trimmed)
RECURSIVE CmpBigAt(_, _, _)
CmpBigAt(a, b, i) ==
    IF i = 0 THEN 0
    ELSE IF a[i] # b[i] THEN (IF a[i] < b[i] THEN -1 ELSE 1)
    ELSE CmpBigAt(a, b, i - 1)

CmpBig(a, b) ==
    IF Len(a) # Len(b) THEN (IF Len(a) < Len(b) THEN -1 ELSE 1)
    ELSE CmpBigAt(a, b, Len(a))

RECURSIVE BitLenNat(_)
BitLenNat(v) == IF v = 0 THEN 0 ELSE 1 + BitLenNat(v \div 2)

BitLen(n) == IF n = <<>> THEN 0 ELSE (Len(n) - 1) * LimbBits + BitLenNat(n[Len(n)])

ShiftLeft(n, k) ==
    IF n = <<>> THEN n
    ELSE Zeros(k \div LimbBits) \o Trim(MulSmall(n, 2^(k % LimbBits), 0))

\* <<n div 2^k, whether a one bit was shifted out>>
RECURSIVE ShiftRight(_, _)
ShiftRight(n, k) ==
    IF k = 0 \/ n = <<>> THEN <<n, FALSE>>
    ELSE IF k >= LimbBits
         THEN LET r == ShiftRight(Tail(n), k - LimbBits)
              IN  <<r[1], r[2] \/ n[1] # 0>>
         ELSE LET r == DivSmall(n, 2^k) IN <<r[1], r[2] # 0>>

(***************************************************************************)
(* binary64 values: value = (-1)^neg * NatOfBig(m) * 2^e with              *)
(* 2^52 <= m < 2^53, or m = <<>> for zero.  Every result in this program   *)
(* is far from the subnormal and overflow ranges.                          *)
(***************************************************************************)
MantBits == 53
FZero == [neg |-> FALSE, m |-> <<>>, e |-> 0]

\* Round n * 2^e (plus a positive remainder below one unit of n when sticky)
\* to the nearest binary64, ties to even.
RoundNearestEven(neg, n, e, sticky) ==
    IF n = <<>> THEN FZero
    ELSE LET wide == Zeros(4) \o n                 \* at least 61 bits
             we   == e - 4 * LimbBits
             s    == BitLen(wide) - (MantBits + 1)
             sh   == ShiftRight(wide, s)           \* 54 bits: significand, guard
             q    == DivSmall(sh[1], 2)
             odd  == q[1][1] % 2 = 1
             up   == q[2] = 1 /\ (sticky \/ sh[2] \/ odd)
             m1   == IF up THEN Trim(AddBig(q[1], <<1>>, 0)) ELSE q[1]
         IN  IF BitLen(m1) > MantBits
             THEN [neg |-> neg, m |-> ShiftRight(m1, 1)[1], e |-> we + s + 2]
             ELSE [neg |-> neg, m |-> m1, e |-> we + s + 1]

Abs(i) == IF i < 0 THEN -i ELSE i

\* Python: a / b on two ints (true division, correctly rounded)
IntTrueDiv(a, b) ==
    IF a = 0 THEN FZero
    ELSE LET qr == DivSmall(Zeros(5) \o BigOfNat(Abs(a)), Abs(b))
         IN  RoundNearestEven((a < 0) # (b < 0), qr[1], -(5 * LimbBits), qr[2] # 0)

\* Python: c * x with c an int and x a float
IntMulFloat(c, x) ==
    IF c = 0 \/ x.m = <<>> THEN FZero
    ELSE RoundNearestEven((c < 0) # x.neg, Trim(MulSmall(x.m, Abs(c), 0)), x.e, FALSE)

\* Python: a + x with a an int and x a float
IntAddFloat(a, x) ==
    IF x.m = <<>> THEN
        IF a = 0 THEN FZero
        ELSE RoundNearestEven(a < 0, BigOfNat(Abs(a)), 0, FALSE)
    ELSE LET k  == IF x.e < 0 THEN -x.e ELSE 0
             xe == IF x.e < 0 THEN x.e ELSE 0
             am == ShiftLeft(BigOfNat(Abs(a)), k)
             xm == IF x.e < 0 THEN x.m ELSE ShiftLeft(x.m, x.e)
         IN  IF (a < 0) = x.neg \/ a = 0
             THEN RoundNearestEven(x.neg, Trim(AddBig(am, xm, 0)), xe, FALSE)
             ELSE LET c == CmpBig(am, xm)
                  IN  IF c = 0 THEN FZero
                      ELSE IF c > 0
                      THEN RoundNearestEven(a < 0, SubBig(am, xm), xe, FALSE)
                      ELSE RoundNearestEven(x.neg, SubBig(xm, am), xe, FALSE)

\* Python: int(x), truncation toward zero
FloatToInt(x) ==
    IF x.m = <<>> THEN 0
    ELSE LET mag == IF x.e >= 0 THEN NatOfBig(ShiftLeft(x.m, x.e))
                    ELSE NatOfBig(ShiftRight(x.m, -x.e)[1])
         IN  IF x.neg THEN -mag ELSE mag

\* x < y on floats
FloatLess(x, y) ==
    LET magLess(p, q) ==
            IF p.m = <<>> THEN q.m # <<>>
            ELSE IF q.m = <<>> THEN FALSE
            ELSE IF p.e # q.e THEN p.e < q.e
            ELSE CmpBig(p.m, q.m) < 0
    IN  IF x.neg # y.neg THEN x.neg /\ (x.m # <<>> \/ y.m # <<>>)
        ELSE IF x.neg THEN magLess(y, x) ELSE magLess(x, y)

\* Python: min(x, y), the first argument unless the second is smaller
FloatMin(x, y) == IF FloatLess(y, x) THEN y ELSE x

(***************************************************************************)
(* Constants of the script.                                                *)
(***************************************************************************)
CANVAS_W == 1320
CANVAS_H == 2868
GRAD_TOP == <<15, 21, 32>>
GRAD_BOTTOM == <<26, 42, 68>>
COLOR_HEADLINE == <<255, 255, 255>>
COLOR_SUBTITLE == <<122, 156, 198>>
FRAME_BORDER_COLOR == <<61, 135, 199>>
FRAME_BORDER_WIDTH == 3
FRAME_CORNER_RADIUS == 40
HEADLINE_Y == 200
SUBTITLE_GAP == 40
DEVICE_TOP_PAD == 120
DEVICE_SIDE_PAD == 80
DEVICE_BOTTOM_PAD == 80
HEADLINE_SIZE == 60
SUBTITLE_SIZE == 32

(***************************************************************************)
(* Bounds of the model.                                                    *)
(***************************************************************************)
MaxGradH == 9          \* gradient heights 0..MaxGradH
MaxGradW == 2          \* gradient widths 1..MaxGradW
MaxShotSide == 3       \* small screenshots: sides 1..MaxShotSide
HeightStep == 190      \* measured text heights are multiples of HeightStep
MaxHeadlineSteps == 13 \* headline heights 0..MaxHeadlineSteps * HeightStep
MaxSubtitleSteps == 1  \* subtitle heights 0..MaxSubtitleSteps * HeightStep
MaxFontFiles == 2      \* font files present in the search directories
MaxDenied == 1         \* search directories the user may not search

VARIABLES
    \* the environment of a run
    input_path, output_path, headline, subtitle,
    files,          \* path -> NoFile, Unreadable, or an image
    dirs,           \* the directories that exist
    dirs_readonly,  \* the directories this user may not create entries in; "." is
                    \* the working directory
    files_readonly, \* the files this user may not open for writing
    umask_readonly, \* whether the umask takes the write bits off what is created
    font_files,     \* the font files that exist, as <<family, suffix, dir>>
    font_loadable,  \* those of font_files that FreeType can load
    dirs_denied,    \* the search directories the user may not search (stat: EACCES)
    textbbox,       \* what draw.textbbox measures for the headline and the subtitle
    stdout, stderr,
    \* the locals of render
    pc, error, canvas, font_headline, font_subtitle,
    hl_x, hl_y, hl_h, st_x, st_y, st_bottom,
    frame_left, frame_top, frame_right, frame_bottom, frame_inner_w, frame_inner_h,
    screenshot, scale, new_w, new_h, paste_x, paste_y,
    \* history: the steps of this run, the run number, the file system at the
    \* start of this run, and the outcome of the first run
    steps, run, files0, dirs0, first,
    \* make_gradient called on its own
    g_pc, g_width, g_height, g_top, g_bottom, g_y, g_rows,
    \* load_font called on its own
    lf_pc, lf_families, lf_size, lf_font, lf_printed

envVars   == <<input_path, output_path, headline, subtitle, font_files, font_loadable,
               dirs_denied, umask_readonly, textbbox>>
fsVars    == <<files, dirs, dirs_readonly, files_readonly>>
textVars  == <<hl_x, hl_y, hl_h, st_x, st_y, st_bottom>>
frameVars == <<frame_left, frame_top, frame_right, frame_bottom, frame_inner_w, frame_inner_h>>
shotVars  == <<screenshot, scale, new_w, new_h, paste_x, paste_y>>
histVars  == <<run, files0, dirs0, first>>
gradVars  == <<g_pc, g_width, g_height, g_top, g_bottom, g_y, g_rows>>
fontCallVars == <<lf_pc, lf_families, lf_size, lf_font, lf_printed>>
aloneVars == <<gradVars, fontCallVars>>
vars == <<envVars, fsVars, stdout, stderr, pc, error, canvas, font_headline,
          font_subtitle, textVars, frameVars, shotVars, steps, histVars, aloneVars>>

renderVars == <<envVars, fsVars, stdout, stderr, pc, error, canvas, font_headline,
                font_subtitle, textVars, frameVars, shotVars, steps, histVars>>

None == "None"

\* Images, on disk or in memory, and what a path can hold instead of one
Image(mode, size, pixels) ==
    [kind |-> "image", mode |-> mode, size |-> size, pixels |-> pixels, ops |-> <<>>]
NotAnImage(kind) ==
    [kind |-> kind, mode |-> "", size |-> <<0, 0>>,
     pixels |-> [source |-> "", top |-> <<>>, bottom |-> <<>>], ops |-> <<>>]
NoImage == NotAnImage("none")
NoFile == NotAnImage("absent")
Unreadable == NotAnImage("unreadable")

NoFont == [kind |-> "none", file |-> <<>>, size |-> 0]
\* in place of a font: candidate.exists() raised
ExistsRaised(candidate) == [kind |-> "PermissionError", file |-> candidate, size |-> 0]
DefaultFont == [kind |-> "default", file |-> <<>>, size |-> 0]
TrueTypeFont(candidate, size) == [kind |-> "truetype", file |-> candidate, size |-> size]

\* one drawing operation on a canvas
DrawOp(op, xy, text, colour, font, image, radius, width) ==
    [op |-> op, xy |-> xy, text |-> text, colour |-> colour, font |-> font,
     image |-> image, radius |-> radius, width |-> width]

(***************************************************************************)
(* make_gradient                                                           *)
(***************************************************************************)
_lerp(a, b, t) == FloatToInt(IntAddFloat(a, IntMulFloat(b - a, t)))

\* a slip: t = y / height
GradientRowColourOffByOne(top, bottom, height, y) ==
    LET t == IntTrueDiv(y, height)
    IN  <<_lerp(top[1], bottom[1], t), _lerp(top[2], bottom[2], t),
          _lerp(top[3], bottom[3], t)>>

\* the body of the loop for row y
GradientRowColour(top, bottom, height, y) ==
    LET t == IntTrueDiv(y, height - 1)
    IN  <<_lerp(top[1], bottom[1], t), _lerp(top[2], bottom[2], t),
          _lerp(top[3], bottom[3], t)>>

\* a slip: the size given as (height, width)
GradientImageTransposed(width, height, top, bottom) ==
    Image("RGB", <<height, width>>, [source |-> "gradient", top |-> top, bottom |-> bottom])

\* the image make_gradient returns when it returns: Image.new, then the rows
GradientImage(width, height, top, bottom) ==
    Image("RGB", <<width, height>>, [source |-> "gradient", top |-> top, bottom |-> bottom])

\* a call of make_gradient as a whole: the image, or the error of y / (height - 1)
make_gradient(width, height, top, bottom) ==
    IF height > 0 /\ height - 1 = 0
    THEN [error |-> "ZeroDivisionError", image |-> NoImage]
    ELSE [error |-> None, image |-> GradientImage(width, height, top, bottom)]

GradientStart ==
    /\ g_pc = "start"
    /\ g_y' = 0
    /\ g_rows' = <<>>
    /\ g_pc' = "loop"
    /\ UNCHANGED <<g_width, g_height, g_top, g_bottom, renderVars, fontCallVars>>

GradientRow ==
    /\ g_pc = "loop"
    /\ g_y < g_height
    /\ g_height - 1 # 0
    /\ g_rows' = Append(g_rows, GradientRowColour(g_top, g_bottom, g_height, g_y))
    /\ g_y' = g_y + 1
    /\ UNCHANGED <<g_pc, g_width, g_height, g_top, g_bottom, renderVars, fontCallVars>>

\* y / (height - 1) with height = 1
GradientZeroDivision ==
    /\ g_pc = "loop"
    /\ g_y < g_height
    /\ g_height - 1 = 0
    /\ g_pc' = "ZeroDivisionError"
    /\ UNCHANGED <<g_width, g_height, g_top, g_bottom, g_y, g_rows, renderVars, fontCallVars>>

GradientReturn ==
    /\ g_pc = "loop"
    /\ g_y >= g_height
    /\ g_pc' = "returned"
    /\ UNCHANGED <<g_width, g_height, g_top, g_bottom, g_y, g_rows, renderVars, fontCallVars>>

(***************************************************************************)
(* load_font                                                               *)
(***************************************************************************)
search_dirs == <<"/System/Library/Fonts", "/System/Library/Fonts/Supplemental",
                 "/Library/Fonts", "~/Library/Fonts">>
suffixes == <<".ttf", ".ttc", ".otf">>
serif_families == <<"Georgia", "Times New Roman", "NewYork">>
sans_families == <<"Helvetica", "HelveticaNeue", "Arial", "SF-Pro-Display-Regular">>

\* for d in search_dirs: the font of the first d whose candidate exists and loads.
\* candidate.exists() is outside the try: Path.exists() lets the OSError of stat
\* through unless it is ENOENT, ENOTDIR, EBADF or ELOOP.
RECURSIVE TryDirs(_, _, _, _)
TryDirs(family, suffix, size, d) ==
    IF d > Len(search_dirs) THEN NoFont
    ELSE LET candidate == <<family, suffix, search_dirs[d]>>
         IN  IF search_dirs[d] \in dirs_denied THEN ExistsRaised(candidate)
             ELSE IF candidate \in font_files /\ candidate \in font_loadable
             THEN TrueTypeFont(candidate, size)
             ELSE TryDirs(family, suffix, size, d + 1)

\* for suffix in (".ttf", ".ttc", ".otf")
RECURSIVE TrySuffixes(_, _, _)
TrySuffixes(family, size, x) ==
    IF x > Len(suffixes) THEN NoFont
    ELSE LET got == TryDirs(family, suffixes[x], size, 1)
         IN  IF got # NoFont THEN got ELSE TrySuffixes(family, size, x + 1)

\* for family in families
RECURSIVE TryFamilies(_, _, _)
TryFamilies(families, size, f) ==
    IF f > Len(families) THEN NoFont
    ELSE LET got == TrySuffixes(families[f], size, 1)
         IN  IF got # NoFont THEN got ELSE TryFamilies(families, size, f + 1)

\* what load_font returns and prints to stderr, or the error it raises
load_font(families, size) ==
    LET got == TryFamilies(families, size, 1)
    IN  IF got.kind = "PermissionError"
        THEN [error |-> got.kind, font |-> NoFont, printed |-> <<>>]
        ELSE IF got # NoFont THEN [error |-> None, font |-> got, printed |-> <<>>]
        ELSE [error |-> None, font |-> DefaultFont,
              printed |-> <<[warning |-> "Could not find any of", families |-> families]>>]

(***************************************************************************)
(* render, one action for each numbered section of the function            *)
(***************************************************************************)
\* a path is <<directory, file name>>
Parent(path) == path[1]

\* 1. canvas = make_gradient(CANVAS_W, CANVAS_H, GRAD_TOP, GRAD_BOTTOM)
MakeCanvas ==
    /\ pc = "gradient"
    /\ LET g == make_gradient(CANVAS_W, CANVAS_H, GRAD_TOP, GRAD_BOTTOM)
       IN  IF g.error # None
           THEN /\ error' = g.error
                /\ pc' = "failed"
                /\ UNCHANGED <<canvas, steps>>
           ELSE /\ canvas' = g.image
                /\ steps' = Append(steps, "gradient")
                /\ pc' = "fonts"
                /\ UNCHANGED error
    /\ UNCHANGED <<envVars, fsVars, stdout, stderr, font_headline, font_subtitle,
                   textVars, frameVars, shotVars, histVars, aloneVars>>

\* 2. the two load_font calls
LoadFonts ==
    /\ pc = "fonts"
    /\ LET h == load_font(serif_families, HEADLINE_SIZE)
           s == load_font(sans_families, SUBTITLE_SIZE)
       IN  IF h.error # None
           THEN /\ error' = h.error
                /\ pc' = "failed"
                /\ UNCHANGED <<font_headline, font_subtitle, stderr, steps>>
           ELSE IF s.error # None
           THEN /\ font_headline' = h.font
                /\ stderr' = stderr \o h.printed
                /\ error' = s.error
                /\ pc' = "failed"
                /\ UNCHANGED <<font_subtitle, steps>>
           ELSE /\ font_headline' = h.font
                /\ font_subtitle' = s.font
                /\ stderr' = stderr \o h.printed \o s.printed
                /\ steps' = Append(steps, "fonts")
                /\ pc' = "headline"
                /\ UNCHANGED error
    /\ UNCHANGED <<envVars, fsVars, stdout, canvas,
                   textVars, frameVars, shotVars, histVars, aloneVars>>

\* canvas after draw.text(xy, text, fill, font)
DrawText(cv, xy, text, fill, font) ==
    [cv EXCEPT !.ops = Append(@, DrawOp("text", xy, text, fill, font, NoImage, 0, 0))]

\* 3. headline, centred
DrawHeadline ==
    /\ pc = "headline"
    /\ LET hl_bbox == textbbox.headline
           hl_w    == hl_bbox[3] - hl_bbox[1]
           h       == hl_bbox[4] - hl_bbox[2]
           x       == (CANVAS_W - hl_w) \div 2
       IN  /\ hl_h' = h
           /\ hl_x' = x
           /\ hl_y' = HEADLINE_Y
           /\ canvas' = DrawText(canvas, <<x, HEADLINE_Y>>, headline,
                                 COLOR_HEADLINE, font_headline)
    /\ steps' = Append(steps, "headline")
    /\ pc' = "subtitle"
    /\ UNCHANGED <<envVars, fsVars, stdout, stderr, error, font_headline, font_subtitle,
                   st_x, st_y, st_bottom, frameVars, shotVars, histVars, aloneVars>>

\* 4. subtitle, centred, below the headline
DrawSubtitle ==
    /\ pc = "subtitle"
    /\ LET st_bbox == textbbox.subtitle
           st_w    == st_bbox[3] - st_bbox[1]
           x       == (CANVAS_W - st_w) \div 2
           y       == hl_y + hl_h + SUBTITLE_GAP
       IN  /\ st_x' = x
           /\ st_y' = y
           /\ canvas' = DrawText(canvas, <<x, y>>, subtitle, COLOR_SUBTITLE, font_subtitle)
           /\ st_bottom' = y + (st_bbox[4] - st_bbox[2])
    /\ steps' = Append(steps, "subtitle")
    /\ pc' = "frame"
    /\ UNCHANGED <<envVars, fsVars, stdout, stderr, error, font_headline, font_subtitle,
                   hl_x, hl_y, hl_h, frameVars, shotVars, histVars, aloneVars>>

\* 5. the device frame region
ComputeFrame ==
    /\ pc = "frame"
    /\ frame_top' = st_bottom + DEVICE_TOP_PAD
    /\ frame_left' = DEVICE_SIDE_PAD
    /\ frame_right' = CANVAS_W - DEVICE_SIDE_PAD
    /\ frame_bottom' = CANVAS_H - DEVICE_BOTTOM_PAD
    /\ frame_inner_w' = (frame_right' - frame_left') - 2 * FRAME_BORDER_WIDTH
    /\ frame_inner_h' = (frame_bottom' - frame_top') - 2 * FRAME_BORDER_WIDTH
    /\ steps' = Append(steps, "frame")
    /\ pc' = "open"
    /\ UNCHANGED <<envVars, fsVars, stdout, stderr, error, canvas, font_headline,
                   font_subtitle, textVars, shotVars, histVars, aloneVars>>


\* a slip: the output directory made before the input is opened
OpenScreenshotAfterMkdir ==
    /\ pc = "open"
    /\ dirs' = dirs \cup {Parent(output_path)}
    /\ LET f == files[input_path]
       IN  IF f.kind = "absent"
           THEN /\ error' = "FileNotFoundError"
                /\ pc' = "failed"
                /\ UNCHANGED <<screenshot, steps>>
           ELSE IF f.kind = "unreadable"
           THEN /\ error' = "UnidentifiedImageError"
                /\ pc' = "failed"
                /\ UNCHANGED <<screenshot, steps>>
           ELSE /\ screenshot' = [f EXCEPT !.mode = "RGBA"]
                /\ steps' = Append(steps, "open")
                /\ pc' = "resize"
                /\ UNCHANGED error
    /\ UNCHANGED <<envVars, files, dirs_readonly, files_readonly, stdout, stderr, canvas,
                   font_headline, font_subtitle, textVars, frameVars, scale, new_w, new_h,
                   paste_x, paste_y, histVars, aloneVars>>

\* 6a. screenshot = Image.open(input_path).convert("RGBA")
OpenScreenshot ==
    /\ pc = "open"
    /\ LET f == files[input_path]
       IN  IF f.kind = "absent"
           THEN /\ error' = "FileNotFoundError"
                /\ pc' = "failed"
                /\ UNCHANGED <<screenshot, steps>>
           ELSE IF f.kind = "unreadable"
           THEN /\ error' = "UnidentifiedImageError"
                /\ pc' = "failed"
                /\ UNCHANGED <<screenshot, steps>>
           ELSE /\ screenshot' = [f EXCEPT !.mode = "RGBA"]
                /\ steps' = Append(steps, "open")
                /\ pc' = "resize"
                /\ UNCHANGED error
    /\ UNCHANGED <<envVars, fsVars, stdout, stderr, canvas, font_headline, font_subtitle,
                   textVars, frameVars, scale, new_w, new_h, paste_x, paste_y, histVars, aloneVars>>

\* a slip: a failed resize swallowed, the screenshot left out
ScaleScreenshotSwallow ==
    /\ pc = "resize"
    /\ LET sc_w == screenshot.size[1]
           sc_h == screenshot.size[2]
           sc   == FloatMin(IntTrueDiv(frame_inner_w, sc_w), IntTrueDiv(frame_inner_h, sc_h))
           w    == FloatToInt(IntMulFloat(sc_w, sc))
           h    == FloatToInt(IntMulFloat(sc_h, sc))
       IN  /\ scale' = sc
           /\ new_w' = w
           /\ new_h' = h
           /\ IF w < 1 \/ h < 1
              THEN /\ pc' = "border"
                   /\ UNCHANGED <<screenshot, steps>>
              ELSE /\ screenshot' = [screenshot EXCEPT !.size = <<w, h>>]
                   /\ steps' = Append(steps, "resize")
                   /\ pc' = "paste"
    /\ UNCHANGED <<envVars, fsVars, stdout, stderr, error, canvas, font_headline,
                   font_subtitle, textVars, frameVars, paste_x, paste_y, histVars, aloneVars>>

\* 6b. scale to fit the inner frame; Image.resize refuses a side below 1
ScaleScreenshot ==
    /\ pc = "resize"
    /\ LET sc_w == screenshot.size[1]
           sc_h == screenshot.size[2]
           sc   == FloatMin(IntTrueDiv(frame_inner_w, sc_w), IntTrueDiv(frame_inner_h, sc_h))
           w    == FloatToInt(IntMulFloat(sc_w, sc))
           h    == FloatToInt(IntMulFloat(sc_h, sc))
       IN  /\ scale' = sc
           /\ new_w' = w
           /\ new_h' = h
           /\ IF w < 1 \/ h < 1
              THEN /\ error' = "ValueError"
                   /\ pc' = "failed"
                   /\ UNCHANGED <<screenshot, steps>>
              ELSE /\ screenshot' = [screenshot EXCEPT !.size = <<w, h>>]
                   /\ steps' = Append(steps, "resize")
                   /\ pc' = "paste"
                   /\ UNCHANGED error
    /\ UNCHANGED <<envVars, fsVars, stdout, stderr, canvas, font_headline, font_subtitle,
                   textVars, frameVars, paste_x, paste_y, histVars, aloneVars>>

\* a slip: the border width left out of the offsets
PasteScreenshotNoInset ==
    /\ pc = "paste"
    /\ LET x == frame_left + (frame_inner_w - new_w) \div 2
           y == frame_top + (frame_inner_h - new_h) \div 2
           inner_radius == IF FRAME_CORNER_RADIUS - FRAME_BORDER_WIDTH > 0
                           THEN FRAME_CORNER_RADIUS - FRAME_BORDER_WIDTH ELSE 0
       IN  /\ paste_x' = x
           /\ paste_y' = y
           /\ canvas' = [canvas EXCEPT !.ops = Append(@,
                            DrawOp("paste", <<x, y, x + new_w, y + new_h>>, "", <<>>, NoFont,
                                   screenshot, inner_radius, 0))]
    /\ steps' = Append(steps, "paste")
    /\ pc' = "border"
    /\ UNCHANGED <<envVars, fsVars, stdout, stderr, error, font_headline, font_subtitle,
                   textVars, frameVars, screenshot, scale, new_w, new_h, histVars,
                   aloneVars>>

\* 6c. centre, mask the corners (a rounded rectangle of inner_radius over the
\* whole scaled image), paste
PasteScreenshot ==
    /\ pc = "paste"
    /\ LET x == frame_left + FRAME_BORDER_WIDTH + (frame_inner_w - new_w) \div 2
           y == frame_top + FRAME_BORDER_WIDTH + (frame_inner_h - new_h) \div 2
           inner_radius == IF FRAME_CORNER_RADIUS - FRAME_BORDER_WIDTH > 0
                           THEN FRAME_CORNER_RADIUS - FRAME_BORDER_WIDTH ELSE 0
       IN  /\ paste_x' = x
           /\ paste_y' = y
           /\ canvas' = [canvas EXCEPT !.ops = Append(@,
                            DrawOp("paste", <<x, y, x + new_w, y + new_h>>, "", <<>>, NoFont,
                                   screenshot, inner_radius, 0))]
    /\ steps' = Append(steps, "paste")
    /\ pc' = "border"
    /\ UNCHANGED <<envVars, fsVars, stdout, stderr, error, font_headline, font_subtitle,
                   textVars, frameVars, screenshot, scale, new_w, new_h, histVars, aloneVars>>

\* 7. draw_rounded_rect: the frame border, on top of the screenshot
DrawFrame ==
    /\ pc = "border"
    /\ canvas' = [canvas EXCEPT !.ops = Append(@,
                     DrawOp("rounded_rectangle",
                            <<frame_left, frame_top, frame_right, frame_bottom>>, "",
                            FRAME_BORDER_COLOR, NoFont, NoImage,
                            FRAME_CORNER_RADIUS, FRAME_BORDER_WIDTH))]
    /\ steps' = Append(steps, "border")
    /\ pc' = "save"
    /\ UNCHANGED <<envVars, fsVars, stdout, stderr, error, font_headline, font_subtitle,
                   textVars, frameVars, shotVars, histVars, aloneVars>>

\* the output file name is longer than the file system allows (ENAMETOOLONG)
NameTooLong(path) == path[2] = "long.png"

\* out.parent.mkdir(parents=True, exist_ok=True): nothing to do when the
\* directory exists; otherwise it is made in the working directory, if that
\* may be written, and the umask decides whether it may be written itself
MkdirError(path) ==
    IF Parent(path) \notin dirs /\ "." \in dirs_readonly THEN "PermissionError" ELSE None

DirsAfterMkdir(path) == dirs \cup {Parent(path)}

ReadonlyAfterMkdir(path) ==
    IF Parent(path) \notin dirs /\ umask_readonly
    THEN dirs_readonly \cup {Parent(path)} ELSE dirs_readonly

\* canvas.save(str(out), "PNG") opens the file with "w+b": an existing file must
\* be writable, a new one needs a writable directory and a name of legal length
SaveError(path, readonly) ==
    IF NameTooLong(path) THEN "OSError"
    ELSE IF files[path].kind # "absent"
    THEN (IF path \in files_readonly THEN "PermissionError" ELSE None)
    ELSE (IF Parent(path) \in readonly THEN "PermissionError" ELSE None)

\* a new file gets its mode from the umask, an existing one keeps its mode
ReadonlyAfterSave(path) ==
    IF files[path].kind = "absent" /\ umask_readonly
    THEN files_readonly \cup {path} ELSE files_readonly

\* 8. mkdir(parents=True, exist_ok=True), then save as PNG, then print: a
\* failure of mkdir leaves the file system as it was, a failure of save leaves
\* the directory mkdir made
Save ==
    /\ pc = "save"
    /\ IF MkdirError(output_path) # None
       THEN /\ error' = MkdirError(output_path)
            /\ pc' = "failed"
            /\ UNCHANGED <<fsVars, stdout, steps>>
       ELSE /\ dirs' = DirsAfterMkdir(output_path)
            /\ dirs_readonly' = ReadonlyAfterMkdir(output_path)
            /\ IF SaveError(output_path, ReadonlyAfterMkdir(output_path)) # None
               THEN /\ error' = SaveError(output_path, ReadonlyAfterMkdir(output_path))
                    /\ pc' = "failed"
                    /\ UNCHANGED <<files, files_readonly, stdout, steps>>
               ELSE /\ files' = [files EXCEPT ![output_path] = canvas]
                    /\ files_readonly' = ReadonlyAfterSave(output_path)
                    /\ stdout' = Append(stdout, <<"Saved:", output_path>>)
                    /\ steps' = Append(steps, "save")
                    /\ pc' = "done"
                    /\ UNCHANGED error
    /\ UNCHANGED <<envVars, stderr, canvas, font_headline, font_subtitle,
                   textVars, frameVars, shotVars, histVars, aloneVars>>

(***************************************************************************)
(* A second run of render with the same arguments, in a new process.       *)
(***************************************************************************)
Finished == pc \in {"done", "failed"}

Outcome == [steps |-> steps, canvas |-> canvas, error |-> error,
            saved |-> files[output_path], stdout |-> stdout, stderr |-> stderr]

Rerun ==
    /\ Finished
    /\ run = 1
    /\ first' = [outcome |-> Outcome, same_input |-> files[input_path] = files0[input_path]]
    /\ run' = 2
    /\ files0' = files
    /\ dirs0' = dirs
    /\ pc' = "gradient"
    /\ error' = None
    /\ canvas' = NoImage
    /\ font_headline' = NoFont
    /\ font_subtitle' = NoFont
    /\ hl_x' = 0 /\ hl_y' = 0 /\ hl_h' = 0 /\ st_x' = 0 /\ st_y' = 0 /\ st_bottom' = 0
    /\ frame_left' = 0 /\ frame_top' = 0 /\ frame_right' = 0 /\ frame_bottom' = 0
    /\ frame_inner_w' = 0 /\ frame_inner_h' = 0
    /\ screenshot' = NoImage /\ scale' = FZero /\ new_w' = 0 /\ new_h' = 0
    /\ paste_x' = 0 /\ paste_y' = 0
    /\ steps' = <<>>
    /\ stdout' = <<>>
    /\ stderr' = <<>>
    /\ UNCHANGED <<envVars, fsVars, aloneVars>>

Next ==
    \/ MakeCanvas \/ LoadFonts \/ DrawHeadline \/ DrawSubtitle \/ ComputeFrame
    \/ OpenScreenshot \/ ScaleScreenshot \/ PasteScreenshot \/ DrawFrame \/ Save
    \/ Rerun

(***************************************************************************)
(* Initial states.                                                         *)
(***************************************************************************)
RawPath == <<"shots", "raw.png">>
OutPath == <<"marketing", "out.png">>
LongPath == <<"marketing", "long.png">>   \* stands for a name of more than 255 bytes
Paths == {RawPath, OutPath, LongPath}

RawImage(w, h) == Image("RGB", <<w, h>>, [source |-> "raw", top |-> <<>>, bottom |-> <<>>])

\* screenshot sizes: every small one, some device sizes, and two slivers
ShotSizes ==
    ((1..MaxShotSide) \X (1..MaxShotSide))
    \cup {<<800, 1600>>, <<1290, 2796>>, <<1320, 2868>>, <<2048, 2732>>, <<2796, 1290>>,
          <<2266, 1488>>, <<35, 64>>, <<1, 2868>>, <<1320, 1>>}

HeadlineHeights == {k * HeightStep : k \in 0..MaxHeadlineSteps}
SubtitleHeights == {k * HeightStep : k \in 0..MaxSubtitleSteps}

AllCandidates(families) ==
    {<<families[f], suffixes[x], search_dirs[d]>> :
        f \in 1..Len(families), x \in 1..Len(suffixes), d \in 1..Len(search_dirs)}

RECURSIVE UpTo(_, _)
UpTo(S, n) == IF n = 0 THEN {{}}
              ELSE LET less == UpTo(S, n - 1)
                   IN  less \cup {t \cup {c} : t \in less, c \in S}

InitLocals ==
    /\ pc = "gradient"
    /\ error = None
    /\ canvas = NoImage
    /\ font_headline = NoFont
    /\ font_subtitle = NoFont
    /\ hl_x = 0 /\ hl_y = 0 /\ hl_h = 0 /\ st_x = 0 /\ st_y = 0 /\ st_bottom = 0
    /\ frame_left = 0 /\ frame_top = 0 /\ frame_right = 0 /\ frame_bottom = 0
    /\ frame_inner_w = 0 /\ frame_inner_h = 0
    /\ screenshot = NoImage /\ scale = FZero /\ new_w = 0 /\ new_h = 0
    /\ paste_x = 0 /\ paste_y = 0
    /\ steps = <<>>
    /\ stdout = <<>>
    /\ stderr = <<>>
    /\ run = 1
    /\ first = None

GradientIdle ==
    /\ g_pc = "idle" /\ g_width = 0 /\ g_height = 0
    /\ g_top = <<0, 0, 0>> /\ g_bottom = <<0, 0, 0>> /\ g_y = 0 /\ g_rows = <<>>

FontCallIdle ==
    /\ lf_pc = "idle" /\ lf_families = <<>> /\ lf_size = 0
    /\ lf_font = NoFont /\ lf_printed = <<>>

\* the environment of a call of make_gradient or load_font on its own
NoRender ==
    /\ input_path = RawPath
    /\ output_path = OutPath
    /\ headline = ""
    /\ subtitle = ""
    /\ files = [p \in Paths |-> NoFile]
    /\ dirs = {}
    /\ dirs_readonly = {}
    /\ files_readonly = {}
    /\ umask_readonly = FALSE
    /\ textbbox = [headline |-> <<0, 0, 0, 0>>, subtitle |-> <<0, 0, 0, 0>>]
    /\ files0 = files
    /\ dirs0 = dirs
    /\ InitLocals

\* screenshots and text heights of every kind; no fonts installed
InitLayout ==
    /\ input_path = RawPath
    /\ output_path = OutPath
    /\ headline = "Your daily spending mirror"
    /\ subtitle = "See where your money quietly drifts"
    /\ \E size \in ShotSizes :
          files = [p \in Paths |-> IF p = RawPath THEN RawImage(size[1], size[2]) ELSE NoFile]
    /\ dirs = {"shots"}
    /\ dirs_readonly = {}
    /\ files_readonly = {}
    /\ umask_readonly = FALSE
    /\ font_files = {}
    /\ font_loadable = {}
    /\ dirs_denied = {}
    /\ \E h \in HeadlineHeights, s \in SubtitleHeights :
          textbbox = [headline |-> <<0, 13, 700, 13 + h>>, subtitle |-> <<0, 7, 520, 7 + s>>]

\* some font installations
FontSetups ==
    {[files |-> {}, loadable |-> {}, denied |-> {}],
     [files |-> {<<"Georgia", ".ttf", "/System/Library/Fonts/Supplemental">>},
      loadable |-> {<<"Georgia", ".ttf", "/System/Library/Fonts/Supplemental">>},
      denied |-> {"~/Library/Fonts"}],
     [files |-> {<<"Georgia", ".ttf", "/System/Library/Fonts/Supplemental">>,
                 <<"Helvetica", ".ttc", "/System/Library/Fonts">>},
      loadable |-> {<<"Georgia", ".ttf", "/System/Library/Fonts/Supplemental">>,
                    <<"Helvetica", ".ttc", "/System/Library/Fonts">>},
      denied |-> {}],
     [files |-> {<<"NewYork", ".ttf", "/System/Library/Fonts">>,
                 <<"Times New Roman", ".ttf", "~/Library/Fonts">>,
                 <<"Arial", ".ttf", "/Library/Fonts">>,
                 <<"Arial", ".otf", "/System/Library/Fonts">>},
      loadable |-> {<<"NewYork", ".ttf", "/System/Library/Fonts">>,
                    <<"Arial", ".otf", "/System/Library/Fonts">>},
      denied |-> {}]}

\* input files, output paths and font installations of every kind
InitFiles ==
    /\ input_path = RawPath
    /\ output_path \in {RawPath, OutPath}
    /\ headline \in {"", "Your daily spending mirror"}
    /\ subtitle = "See where your money quietly drifts"
    /\ \E in \in {NoFile, Unreadable, RawImage(800, 1600)}, old \in {NoFile, RawImage(2, 3)} :
          files = [p \in Paths |-> IF p = RawPath THEN in ELSE IF p = OutPath THEN old ELSE NoFile]
    /\ \E d \in SUBSET {"marketing"} :
          dirs = {"shots"} \cup d \cup (IF files[OutPath] # NoFile THEN {"marketing"} ELSE {})
    /\ \E f \in FontSetups :
          font_files = f.files /\ font_loadable = f.loadable /\ dirs_denied = f.denied
    /\ dirs_readonly = {}
    /\ files_readonly = {}
    /\ umask_readonly = FALSE
    /\ textbbox = [headline |-> IF headline = "" THEN <<0, 0, 0, 0>> ELSE <<0, 13, 700, 57>>,
                   subtitle |-> <<0, 7, 520, 31>>]

\* output places of every kind: the directory there or not, the file there or
\* not, each writable or not, the working directory writable or not, either umask
InitAccess ==
    /\ input_path = RawPath
    /\ output_path \in Paths
    /\ headline = "Your daily spending mirror"
    /\ subtitle = "See where your money quietly drifts"
    /\ \E old \in {NoFile, RawImage(2, 3)} :
          files = [p \in Paths |-> IF p = RawPath THEN RawImage(800, 1600)
                                   ELSE IF p = OutPath THEN old ELSE NoFile]
    /\ \E d \in SUBSET {"marketing"} :
          dirs = {"shots"} \cup d \cup (IF files[OutPath] # NoFile THEN {"marketing"} ELSE {})
    /\ dirs_readonly \in SUBSET ({"."} \cup (dirs \ {"shots"}))
    /\ files_readonly \in SUBSET {p \in Paths : files[p] # NoFile}
    /\ umask_readonly \in BOOLEAN
    /\ font_files = {}
    /\ font_loadable = {}
    /\ dirs_denied = {}
    /\ textbbox = [headline |-> <<0, 13, 700, 57>>, subtitle |-> <<0, 7, 520, 31>>]

Init ==
    /\ InitLayout \/ InitFiles \/ InitAccess
    /\ files0 = files
    /\ dirs0 = dirs
    /\ InitLocals
    /\ GradientIdle
    /\ FontCallIdle

Spec == Init /\ [][Next]_vars

\* make_gradient on its own
GradientColours == {GRAD_TOP, GRAD_BOTTOM, COLOR_HEADLINE, COLOR_SUBTITLE,
                    FRAME_BORDER_COLOR, <<0, 49, 255>>}

InitGradient ==
    /\ g_pc = "start"
    /\ \/ /\ g_width \in 1..MaxGradW
          /\ g_height \in 0..MaxGradH
          /\ g_top \in GradientColours
          /\ g_bottom \in GradientColours
       \/ /\ g_width = CANVAS_W          \* the call render makes
          /\ g_height = CANVAS_H
          /\ g_top = GRAD_TOP
          /\ g_bottom = GRAD_BOTTOM
    /\ g_y = 0
    /\ g_rows = <<>>
    /\ font_files = {}
    /\ font_loadable = {}
    /\ dirs_denied = {}
    /\ NoRender
    /\ FontCallIdle

NextGradient == GradientStart \/ GradientRow \/ GradientZeroDivision \/ GradientReturn

SpecGradient == InitGradient /\ [][NextGradient]_vars

\* load_font on its own, over every installation of at most MaxFontFiles files
\* that carry a name load_font looks for
LoadFontCall ==
    /\ lf_pc = "call"
    /\ LET r == load_font(lf_families, lf_size)
       IN  /\ lf_font' = r.font
           /\ lf_printed' = r.printed
           /\ lf_pc' = IF r.error # None THEN r.error ELSE "returned"
    /\ UNCHANGED <<lf_families, lf_size, renderVars, gradVars>>

InitFont ==
    /\ lf_pc = "call"
    /\ \E call \in {<<serif_families, HEADLINE_SIZE>>, <<sans_families, SUBTITLE_SIZE>>} :
          /\ lf_families = call[1]
          /\ lf_size = call[2]
    /\ lf_font = NoFont
    /\ lf_printed = <<>>
    /\ font_files \in UpTo(AllCandidates(lf_families), MaxFontFiles)
    /\ font_loadable \in SUBSET font_files
    /\ dirs_denied \in UpTo({search_dirs[d] : d \in 1..Len(search_dirs)}, MaxDenied)
    /\ NoRender
    /\ GradientIdle

NextFont == LoadFontCall

SpecFont == InitFont /\ [][NextFont]_vars

(***************************************************************************)
(* Properties.                                                             *)
(***************************************************************************)
Scaled == pc \in {"paste", "border", "save", "done"}
             \/ (pc = "failed" /\ error = "ValueError")
Pasted == pc \in {"border", "save", "done"}
FrameComputed == pc \in {"open", "resize", "paste", "border", "save", "done"}
                    \/ (pc = "failed" /\ Len(steps) >= 5)

\* C1: once render has computed the scaled size for a frame of positive inner
\* width and height, new_w <= frame_inner_w and new_h <= frame_inner_h, and one
\* of the two is equal to the inner dimension.
AspectFit ==
    (Scaled /\ frame_inner_w > 0 /\ frame_inner_h > 0) =>
        /\ new_w <= frame_inner_w
        /\ new_h <= frame_inner_h
        /\ new_w = frame_inner_w \/ new_h = frame_inner_h

\* C2: for any measured text heights, the frame rectangle render computes lies
\* within the canvas and its inner width and height are not negative.
FrameInCanvas ==
    FrameComputed =>
        /\ 0 <= frame_left /\ frame_left <= frame_right /\ frame_right <= 1320
        /\ 0 <= frame_top /\ frame_top <= frame_bottom /\ frame_bottom <= 2868
        /\ frame_inner_w >= 0
        /\ frame_inner_h >= 0

\* C3: make_gradient with height 1 does not raise and returns one row of colour top.
GradientHeightOne ==
    g_height = 1 =>
        /\ g_pc # "ZeroDivisionError"
        /\ g_pc = "returned" => g_rows = <<g_top>>

Between(v, a, b) == (a <= v /\ v <= b) \/ (b <= v /\ v <= a)

\* C4: for a height above 1, the first row of the gradient is top, the last is
\* bottom, and every channel runs monotonically from its top to its bottom value,
\* never leaving the interval between them.
GradientEndsAndMonotone ==
    (g_height > 1 /\ g_pc \in {"loop", "returned"}) =>
        /\ Len(g_rows) >= 1 => g_rows[1] = g_top
        /\ g_pc = "returned" => (Len(g_rows) = g_height /\ g_rows[g_height] = g_bottom)
        /\ \A c \in 1..3 :
              /\ \A y \in 1..Len(g_rows) : Between(g_rows[y][c], g_top[c], g_bottom[c])
              /\ \A y \in 1..(Len(g_rows) - 1) :
                    IF g_top[c] <= g_bottom[c]
                    THEN g_rows[y][c] <= g_rows[y + 1][c]
                    ELSE g_rows[y][c] >= g_rows[y + 1][c]

GradientEndsAndMonotoneWitness ==
    /\ g_pc = "returned"
    /\ g_height > 3
    /\ g_top[1] < g_bottom[1]
    /\ g_top[2] > g_bottom[2]
    /\ g_rows[2] # g_rows[3]

\* C5: when the input path holds no readable image, render ends in an error, that
\* of Image.open once it gets there, and leaves the file system and stdout as
\* they were: no directory made, no file written or replaced, no "Saved:" line.
NoOutputOnBadInput ==
    files0[input_path].kind # "image" =>
        /\ pc \in {"gradient", "fonts", "headline", "subtitle", "frame", "open", "failed"}
        /\ pc = "failed" => error # None
        /\ (pc = "failed" /\ Len(steps) = 5) =>
              error = (IF files0[input_path].kind = "absent"
                       THEN "FileNotFoundError" ELSE "UnidentifiedImageError")
        /\ dirs = dirs0
        /\ files = files0
        /\ stdout = <<>>

NoOutputOnBadInputWitness ==
    /\ pc = "failed"
    /\ error = "FileNotFoundError"
    /\ files0[input_path].kind = "absent"
    /\ output_path = OutPath
    /\ "marketing" \notin dirs

\* the place of a candidate in the order family, then suffix, then directory
IndexIn(seq, v) == CHOOSE i \in 1..Len(seq) : seq[i] = v
Rank(families, c) ==
    ((IndexIn(families, c[1]) - 1) * Len(suffixes) + (IndexIn(suffixes, c[2]) - 1))
        * Len(search_dirs) + IndexIn(search_dirs, c[3])

\* C6: load_font never raises: it returns the font of the first candidate (by
\* family, then suffix, then directory) that exists and loads, and prints nothing;
\* with no such candidate it prints one warning and returns the default font.
LoadFontFirstMatch ==
    /\ lf_pc \in {"call", "returned"}
    /\ lf_pc = "returned" =>
        LET usable == AllCandidates(lf_families) \cap font_files \cap font_loadable
        IN  IF usable = {}
            THEN lf_font = DefaultFont /\ Len(lf_printed) = 1
            ELSE /\ lf_printed = <<>>
                 /\ lf_font.kind = "truetype"
                 /\ lf_font.size = lf_size
                 /\ lf_font.file \in usable
                 /\ \A c \in usable : Rank(lf_families, lf_font.file) <= Rank(lf_families, c)

\* C7: the canvas is 1320 by 2868 from its creation to the save, and so is the
\* image saved.
CanvasSizeFixed ==
    /\ Len(steps) >= 1 => canvas.size = <<1320, 2868>>
    /\ pc = "done" => files[output_path].size = <<1320, 2868>>

CanvasSizeFixedWitness ==
    /\ pc = "done"
    /\ Len(canvas.ops) = 4
    /\ canvas.ops[3].image.size # files0[input_path].size
    /\ files[output_path].size = <<1320, 2868>>

\* C8: a second run with the same arguments, the same fonts and the same input
\* image goes through the same steps and ends as the first did: same canvas,
\* same error, same saved file, same output.
Deterministic ==
    (run = 2 /\ Finished /\ first.same_input) => Outcome = first.outcome

Pipeline == <<"gradient", "fonts", "headline", "subtitle", "frame",
              "open", "resize", "paste", "border", "save">>

\* C9: the steps of a run are an initial part of gradient, fonts, headline,
\* subtitle, frame, open, resize, paste, border, save, each once; nothing of the
\* save (the directory, the file, the "Saved:" line) happens before every earlier
\* step is done, and the file is written exactly when all of them were done.
StepsInOrder ==
    /\ \E n \in 0..Len(Pipeline) : steps = SubSeq(Pipeline, 1, n)
    /\ pc = "done" <=> steps = Pipeline
    /\ dirs # dirs0 => Len(steps) >= Len(Pipeline) - 1
    /\ (stdout # <<>> \/ files # files0) <=> steps = Pipeline
    /\ Len(steps) >= 1 => Len(canvas.ops) =
          Cardinality({i \in 1..Len(steps) :
                          steps[i] \in {"headline", "subtitle", "paste", "border"}})

StepsInOrderWitness ==
    /\ pc = "done"
    /\ steps = Pipeline
    /\ canvas.ops[3].op = "paste"
    /\ canvas.ops[4].op = "rounded_rectangle"

\* C10: for a frame of positive inner width and height, the pasted rectangle
\* lies inside the frame inset by the border width, and is centred there to
\* within one pixel in each direction.
PasteInsideAndCentred ==
    (Pasted /\ frame_inner_w > 0 /\ frame_inner_h > 0) =>
        LET left   == paste_x - (frame_left + FRAME_BORDER_WIDTH)
            right  == (frame_right - FRAME_BORDER_WIDTH) - (paste_x + new_w)
            top    == paste_y - (frame_top + FRAME_BORDER_WIDTH)
            bottom == (frame_bottom - FRAME_BORDER_WIDTH) - (paste_y + new_h)
        IN  /\ left >= 0 /\ right >= 0 /\ top >= 0 /\ bottom >= 0
            /\ paste_x >= 0 /\ paste_x + new_w <= 1320
            /\ paste_y >= 0 /\ paste_y + new_h <= 2868
            /\ right - left \in {0, 1}
            /\ bottom - top \in {0, 1}
            /\ canvas.ops[3].xy = <<paste_x, paste_y, paste_x + new_w, paste_y + new_h>>

PasteInsideAndCentredWitness ==
    /\ pc = "done"
    /\ new_w = frame_inner_w
    /\ (frame_inner_h - new_h) % 2 = 1
    /\ paste_x = frame_left + FRAME_BORDER_WIDTH
====
